---- MODULE Spec2Model ----
(***************************************************************************)
(* sysfs-pwm: PWM channels driven through /sys/class/pwm.                  *)
(*                                                                         *)
(* The kernel side (which directories exist, what the attribute files hold *)
(* and which writes the driver accepts) is the state; every library call   *)
(* is one action, translated from src/src/lib.rs, and the steps of the     *)
(* suspending with_exported are translated from src/src/async_pwm.rs.      *)
(*                                                                         *)
(* Text is a sequence of one-character strings, so formatting, trimming,   *)
(* splitting and parsing are computed rather than assumed.  Digit strings  *)
(* of the model have fewer than ten digits, so u32 overflow is out of      *)
(* reach of every parse below.                                             *)
(***************************************************************************)
EXTENDS Integers, Sequences, FiniteSets, TLC

VARIABLES exported, attr, capture, last, track, task

vars == <<exported, attr, capture, last, track, task>>

(***************************************************************************)
(* Bounds                                                                  *)
(***************************************************************************)
MaxChip == 1
Npwm == 2
MaxNs == 2
MaxLen == 5

Chips == 0..MaxChip
\* Only pwmchip0 is present; every other index has no controller directory.
Present == {0}
\* Channel indices callers pass; index Npwm is one past the last channel.
Channels == 0..Npwm
Lines == 0..(Npwm - 1)
NsValues == {6 * k : k \in 0..MaxNs}

(***************************************************************************)
(* Text                                                                    *)
(***************************************************************************)
DigitChars == <<"0", "1", "2", "3", "4", "5", "6", "7", "8", "9">>

IsDigit(ch) == \E i \in 1..10 : DigitChars[i] = ch

DigitVal(ch) == (CHOOSE i \in 1..10 : DigitChars[i] = ch) - 1

IsSpace(ch) == ch \in {" ", "\n", "\t"}

RECURSIVE DigitsVal(_)
DigitsVal(s) ==
    IF s = <<>> THEN 0
    ELSE DigitsVal(SubSeq(s, 1, Len(s) - 1)) * 10 + DigitVal(s[Len(s)])

\* format!("{}", n) of a u32
RECURSIVE Format(_)
Format(n) ==
    IF n < 10 THEN <<DigitChars[n + 1]>>
    ELSE Format(n \div 10) \o <<DigitChars[(n % 10) + 1]>>

\* str::parse::<u32>: an optional '+', then one or more digits, nothing else.
\* -1 stands for Err(ParseIntError).
ParseU32(s) ==
    LET body == IF s /= <<>> /\ s[1] = "+" THEN Tail(s) ELSE s
    IN  IF body = <<>> \/ (\E i \in 1..Len(body) : ~IsDigit(body[i]))
        THEN -1
        ELSE DigitsVal(body)

RECURSIVE TrimStart(_)
TrimStart(s) ==
    IF s /= <<>> /\ IsSpace(s[1]) THEN TrimStart(Tail(s)) ELSE s

RECURSIVE TrimEnd(_)
TrimEnd(s) ==
    IF s /= <<>> /\ IsSpace(s[Len(s)])
    THEN TrimEnd(SubSeq(s, 1, Len(s) - 1))
    ELSE s

\* str::trim
Trim(s) == TrimEnd(TrimStart(s))

\* The first token of a text that starts with a non-space character.
RECURSIVE TakeToken(_)
TakeToken(s) ==
    IF s = <<>> \/ IsSpace(s[1]) THEN <<>>
    ELSE <<s[1]>> \o TakeToken(Tail(s))

\* str::split_whitespace, collected: the maximal runs of non-space characters.
RECURSIVE SplitWhitespace(_)
SplitWhitespace(s) ==
    LET t == TrimStart(s)
    IN  IF t = <<>> THEN <<>>
        ELSE LET tok == TakeToken(t)
             IN  <<tok>> \o SplitWhitespace(SubSeq(t, Len(tok) + 1, Len(t)))

(***************************************************************************)
(* Results and errors (src/src/error.rs)                                   *)
(***************************************************************************)
NoErr == [kind |-> "None", msg |-> <<>>]

\* Error::Io(e), by way of From<io::Error>
IoError(what) == [kind |-> "Io", msg |-> <<what>>]

\* Error::Unexpected(s)
Unexpected(s) == [kind |-> "Unexpected", msg |-> s]

\* impl Display for Error
Display(e) ==
    IF e.kind = "Unexpected" THEN <<"Unexpected: ">> \o e.msg ELSE e.msg

Ok(v) == [ok |-> TRUE, val |-> v, err |-> NoErr]

Err(e) == [ok |-> FALSE, val |-> <<>>, err |-> e]

\* The result slot of a step that did not run.
NotRun == [ok |-> FALSE, val |-> <<>>, err |-> [kind |-> "NotRun", msg |-> <<>>]]

(***************************************************************************)
(* The kernel's side of the files                                          *)
(***************************************************************************)
\* What one call meets at the file system: whether an existence probe of an
\* existing path answers, whether a file that exists opens, whether the
\* driver accepts a write it has no reason of its own to refuse.  One call
\* meets at most one refusal.
Envs ==
    {env \in [probe : BOOLEAN, open : BOOLEAN, write : BOOLEAN] :
        Cardinality({k \in {"probe", "open", "write"} : ~env[k]}) <= 1}

Calm == [probe |-> TRUE, open |-> TRUE, write |-> TRUE]

\* The answers that matter to a call that makes no existence probe.
AttrEnvs == {env \in Envs : env.probe}

\* One file-system access of a call: pin -1 is the chip's own directory.
Ev(kind, c, pin, name, ok) ==
    [kind |-> kind, chip |-> c, pin |-> pin, name |-> name, ok |-> ok]

DefaultAttr == [period |-> 0, duty_cycle |-> 0]

World == [exported |-> exported, attr |-> attr]

\* /sys/class/pwm/pwmchipC (pin -1) or /sys/class/pwm/pwmchipC/pwmN exists
Exists(w, c, pin) ==
    /\ c \in Present
    /\ pin = -1 \/ pin \in w.exported[c]

\* "%u\n", as the kernel shows an unsigned attribute
KernelShow(n) == Format(n) \o <<"\n">>

\* kstrtouint: decimal digits, one trailing newline allowed; -1 is -EINVAL
KStrToUint(s) ==
    ParseU32(IF s /= <<>> /\ s[Len(s)] = "\n" THEN SubSeq(s, 1, Len(s) - 1) ELSE s)

\* The driver takes a write to pwmchipC/export: the index is a channel of the
\* chip that is not exported yet.
ExportAccepted(w, c, text, env) ==
    /\ env.write
    /\ KStrToUint(text) \in Lines
    /\ KStrToUint(text) \notin w.exported[c]

ExportStore(w, c, text, env) ==
    IF ExportAccepted(w, c, text, env)
    THEN [exported |-> [w.exported EXCEPT ![c] = @ \cup {KStrToUint(text)}],
          attr |-> [w.attr EXCEPT ![c][KStrToUint(text)] = DefaultAttr]]
    ELSE w

\* The driver takes a write to pwmchipC/unexport: the channel is exported.
UnexportAccepted(w, c, text, env) ==
    /\ env.write
    /\ KStrToUint(text) \in w.exported[c]

UnexportStore(w, c, text, env) ==
    IF UnexportAccepted(w, c, text, env)
    THEN [exported |-> [w.exported EXCEPT ![c] = @ \ {KStrToUint(text)}],
          attr |-> [w.attr EXCEPT ![c][KStrToUint(text)] = DefaultAttr]]
    ELSE w

\* io::Error of a failed open or probe
OpenError(c) == IoError(IF c \in Present THEN "PermissionDenied" ELSE "NotFound")

(***************************************************************************)
(* PwmChip (src/src/lib.rs)                                                *)
(*                                                                         *)
(* Every operation is computed on a world w = [exported, attr] under the   *)
(* file-system answers env, and yields [res, w, io]: the Result returned,  *)
(* the world it leaves and the file accesses it made, in order.            *)
(***************************************************************************)
\* fs::metadata(path).is_ok()
Metadata(w, c, pin, env) == Exists(w, c, pin) /\ env.probe

\* File::create of a control file of the chip succeeds
CreateOk(c, env) == c \in Present /\ env.open

\* PwmChip::new without the probe of the chip's directory
ChipNewUnprobed(w, c, env) == [res |-> Ok(<<c>>), w |-> w, io |-> <<>>]

\* PwmChip::new
ChipNew(w, c, env) ==
    [res |-> IF Metadata(w, c, -1, env) THEN Ok(<<c>>) ELSE Err(OpenError(c)),
     w   |-> w,
     io  |-> <<Ev("stat", c, -1, "", Metadata(w, c, -1, env))>>]

\* PwmChip::count: the text of npwm is parsed as it was read
ChipCount(w, c, env) ==
    LET s == KernelShow(Npwm)
    IN  IF ~CreateOk(c, env)
        THEN [res |-> Err(OpenError(c)), w |-> w,
              io  |-> <<Ev("open_ro", c, -1, "npwm", FALSE)>>]
        ELSE [res |-> IF ParseU32(s) >= 0
                      THEN Ok(<<ParseU32(s)>>)
                      ELSE Err(Unexpected(<<"Unexpected npwm contents: ">> \o s)),
              w   |-> w,
              io  |-> <<Ev("open_ro", c, -1, "npwm", TRUE),
                        Ev("read", c, -1, "npwm", TRUE)>>]

\* PwmChip::export: the result of write_all is discarded
ChipExport(w, c, n, env) ==
    LET st == Ev("stat", c, n, "", Metadata(w, c, n, env))
    IN  IF Metadata(w, c, n, env)
        THEN [res |-> Ok(<<>>), w |-> w, io |-> <<st>>]
        ELSE IF ~CreateOk(c, env)
        THEN [res |-> Err(OpenError(c)), w |-> w,
              io  |-> <<st, Ev("create", c, -1, "export", FALSE)>>]
        ELSE [res |-> Ok(<<>>),
              w   |-> ExportStore(w, c, Format(n), env),
              io  |-> <<st, Ev("create", c, -1, "export", TRUE),
                        Ev("write", c, -1, "export",
                           ExportAccepted(w, c, Format(n), env))>>]

\* PwmChip::unexport without the probe of the channel's directory
ChipUnexportUnprobed(w, c, n, env) ==
    IF ~CreateOk(c, env)
    THEN [res |-> Err(OpenError(c)), w |-> w,
          io  |-> <<Ev("create", c, -1, "unexport", FALSE)>>]
    ELSE [res |-> Ok(<<>>),
          w   |-> UnexportStore(w, c, Format(n), env),
          io  |-> <<Ev("create", c, -1, "unexport", TRUE),
                    Ev("write", c, -1, "unexport",
                       UnexportAccepted(w, c, Format(n), env))>>]

\* PwmChip::unexport: the result of write_all is discarded
ChipUnexport(w, c, n, env) ==
    LET st == Ev("stat", c, n, "", Metadata(w, c, n, env))
    IN  IF ~Metadata(w, c, n, env)
        THEN [res |-> Ok(<<>>), w |-> w, io |-> <<st>>]
        ELSE IF ~CreateOk(c, env)
        THEN [res |-> Err(OpenError(c)), w |-> w,
              io  |-> <<st, Ev("create", c, -1, "unexport", FALSE)>>]
        ELSE [res |-> Ok(<<>>),
              w   |-> UnexportStore(w, c, Format(n), env),
              io  |-> <<st, Ev("create", c, -1, "unexport", TRUE),
                        Ev("write", c, -1, "unexport",
                           UnexportAccepted(w, c, Format(n), env))>>]

(***************************************************************************)
(* Pwm (src/src/lib.rs)                                                    *)
(***************************************************************************)
\* Pwm::new
PwmNew(w, c, n, env) ==
    LET r == ChipNew(w, c, env)
    IN  [res |-> IF r.res.ok THEN Ok(<<c, n>>) ELSE r.res, w |-> r.w, io |-> r.io]

\* The closures handed to with_exported: what the closure returns, and
\* whether it unexports the channel itself before it returns.
BodyErrors == {IoError("InvalidInput"), Unexpected(<<"x">>)}

Closures ==
    [ret : {Ok(<<>>)} \cup {Err(e) : e \in BodyErrors}, unexports : BOOLEAN]

\* closure()
RunBody(w, c, n, f) ==
    IF f.unexports
    THEN [res |-> f.ret, w |-> ChipUnexport(w, c, n, Calm).w,
          io  |-> ChipUnexport(w, c, n, Calm).io]
    ELSE [res |-> f.ret, w |-> w, io |-> <<>>]

\* The match with the unexport error dropped when the closure failed
ComposeBodyOnly(b, u) == IF b.ok THEN u ELSE b

\* The match of with_exported on the closure's result and unexport's
Compose(b, u) ==
    IF b.ok THEN u
    ELSE IF u.ok THEN b
    ELSE Err(Unexpected(<<"Failed unexporting due to:">> \o Display(u.err)
                        \o <<"while handling:">> \o Display(b.err)))

NoSteps == [exp |-> NotRun, body |-> NotRun, unexp |-> NotRun]

\* Pwm::with_exported
WithExportedRun(w, c, n, e1, f, e2) ==
    LET x == ChipExport(w, c, n, e1)
        b == RunBody(x.w, c, n, f)
        u == ChipUnexport(b.w, c, n, e2)
    IN  IF ~x.res.ok
        THEN [res |-> x.res, w |-> x.w, io |-> x.io,
              steps |-> [exp |-> x.res, body |-> NotRun, unexp |-> NotRun]]
        ELSE [res |-> Compose(b.res, u.res), w |-> u.w,
              io  |-> x.io \o b.io \o u.io,
              steps |-> [exp |-> x.res, body |-> b.res, unexp |-> u.res]]

(***************************************************************************)
(* Attribute files of an exported channel                                  *)
(***************************************************************************)
\* OpenOptions::open / File::open of pwmchipC/pwmN/<name> succeeds
AttrOpenOk(w, c, n, env) == Exists(w, c, n) /\ env.open

AttrError(w, c, n) ==
    IoError(IF Exists(w, c, n) THEN "PermissionDenied" ELSE "NotFound")

\* The driver takes a write to period or duty_cycle: a number, and the duty
\* cycle stays within the period.
AttrAccepted(w, c, n, name, text, env) ==
    /\ env.write
    /\ KStrToUint(text) >= 0
    /\ name = "duty_cycle" => KStrToUint(text) <= w.attr[c][n].period
    /\ name = "period" => KStrToUint(text) >= w.attr[c][n].duty_cycle

AttrStore(w, c, n, name, text) ==
    [w EXCEPT !.attr[c][n][name] = KStrToUint(text)]

\* pwm_file_wo, then write_all(format!("{}", value))?
PwmFileWrite(w, c, n, name, value, env) ==
    IF ~AttrOpenOk(w, c, n, env)
    THEN [res |-> Err(AttrError(w, c, n)), w |-> w,
          io  |-> <<Ev("open_wo", c, n, name, FALSE)>>]
    ELSE IF ~AttrAccepted(w, c, n, name, Format(value), env)
    THEN [res |-> Err(IoError("InvalidInput")), w |-> w,
          io  |-> <<Ev("open_wo", c, n, name, TRUE),
                    Ev("write", c, n, name, FALSE)>>]
    ELSE [res |-> Ok(<<>>),
          w   |-> AttrStore(w, c, n, name, Format(value)),
          io  |-> <<Ev("open_wo", c, n, name, TRUE),
                    Ev("write", c, n, name, TRUE)>>]

\* The parse of pwm_file_parse without the trim
ParseUntrimmed(s) == ParseU32(s)

\* s.trim().parse::<u32>() of pwm_file_parse
ParseTrimmed(s) == ParseU32(Trim(s))

\* pwm_file_parse::<u32>
PwmFileParse(w, c, n, name, env) ==
    LET s == KernelShow(w.attr[c][n][name])
    IN  IF ~AttrOpenOk(w, c, n, env)
        THEN [res |-> Err(AttrError(w, c, n)), w |-> w,
              io  |-> <<Ev("open_ro", c, n, name, FALSE)>>]
        ELSE [res |-> IF ParseTrimmed(s) >= 0
                      THEN Ok(<<ParseTrimmed(s)>>)
                      ELSE Err(Unexpected(<<"Unexpeted value file contents: ">> \o s)),
              w   |-> w,
              io  |-> <<Ev("open_ro", c, n, name, TRUE),
                        Ev("read", c, n, name, TRUE)>>]

\* Pwm::set_duty_cycle_ns
SetDutyCycleNs(w, c, n, value, env) == PwmFileWrite(w, c, n, "duty_cycle", value, env)

\* Pwm::get_duty_cycle_ns
GetDutyCycleNs(w, c, n, env) == PwmFileParse(w, c, n, "duty_cycle", env)

\* Pwm::set_period_ns
SetPeriodNs(w, c, n, value, env) == PwmFileWrite(w, c, n, "period", value, env)

\* Pwm::get_period_ns
GetPeriodNs(w, c, n, env) == PwmFileParse(w, c, n, "period", env)

\* The loop of pwm_capture_parse: the tokens that parse, in order; a token
\* that does not parse is passed over.
RECURSIVE ParsedTokens(_)
ParsedTokens(toks) ==
    IF toks = <<>> THEN <<>>
    ELSE (IF ParseU32(toks[1]) >= 0 THEN <<ParseU32(toks[1])>> ELSE <<>>)
         \o ParsedTokens(Tail(toks))

\* pwm_capture_parse::<u32> of a file holding s
CaptureParse(s) == ParsedTokens(SplitWhitespace(Trim(s)))

\* The match of get_capture taking the first two of two or more
CaptureResultAtLeastTwo(t) ==
    IF Len(t) >= 2 THEN Ok(<<t[1], t[2]>>)
    ELSE Err(Unexpected(<<"Failed exporting">>))

\* The match of get_capture on the parsed vector
CaptureResult(t) ==
    IF Len(t) = 2 THEN Ok(<<t[1], t[2]>>)
    ELSE Err(Unexpected(<<"Failed exporting">>))

\* Pwm::get_capture
GetCapture(w, c, n, s, env) ==
    IF ~AttrOpenOk(w, c, n, env)
    THEN [res |-> Err(AttrError(w, c, n)), w |-> w,
          io  |-> <<Ev("open_ro", c, n, "capture", FALSE)>>]
    ELSE [res |-> CaptureResult(CaptureParse(s)), w |-> w,
          io  |-> <<Ev("open_ro", c, n, "capture", TRUE),
                    Ev("read", c, n, "capture", TRUE)>>]

(***************************************************************************)
(* State                                                                   *)
(*                                                                         *)
(* exported[c]  the channels of chip c whose pwmN directory exists         *)
(* attr[c][n]   what the period and duty_cycle files of the channel hold   *)
(* capture      the text of the capture file of an exported channel        *)
(* last         the call that returned last: its arguments, its result,    *)
(*              its file accesses, the exported channels before it, and    *)
(*              (where track is set) the call before it                    *)
(* track        whether calls are followed in pairs                        *)
(* task         the suspending with_exported in flight                     *)
(***************************************************************************)
NoBrief == [op |-> "none", chip |-> -1, n |-> -1, arg |-> -1, ok |-> FALSE,
            calm |-> FALSE]

\* What the next call keeps of the call before it.
Brief(l) ==
    IF track /\ l.op \in {"export", "set_duty_cycle_ns"}
    THEN [op |-> l.op, chip |-> l.chip, n |-> l.n, arg |-> l.arg,
          ok |-> l.res.ok, calm |-> l.env = Calm]
    ELSE NoBrief

NoCall ==
    [op |-> "none", chip |-> -1, n |-> -1, arg |-> -1, env |-> Calm,
     res |-> NotRun, io |-> <<>>, pre |-> [c \in Present |-> {}],
     steps |-> NoSteps, after |-> NoBrief]

IdleTask ==
    [pc |-> "idle", chip |-> -1, n |-> -1, f |-> [ret |-> NotRun, unexports |-> FALSE],
     steps |-> NoSteps, res |-> NotRun, log |-> <<>>]

InitKernel ==
    /\ exported = [c \in Present |-> {}]
    /\ attr = [c \in Present |-> [n \in Lines |-> DefaultAttr]]

InitCapture == capture = <<"0", " ", "0", "\n">>

Init ==
    /\ InitKernel
    /\ InitCapture
    /\ last = NoCall
    /\ track = FALSE
    /\ task = IdleTask

\* A call returns: the world it leaves, and the record of the call.
Return(op, c, n, arg, env, r, steps) ==
    /\ exported' = r.w.exported
    /\ attr' = r.w.attr
    /\ last' = [op |-> op, chip |-> c, n |-> n, arg |-> arg, env |-> env,
                res |-> r.res, io |-> r.io, pre |-> exported,
                steps |-> steps, after |-> Brief(last)]
    /\ UNCHANGED <<capture, track, task>>

CallChipNew(c) ==
    \E env \in Envs :
        Return("chip_new", c, -1, -1, env, ChipNew(World, c, env), NoSteps)

CallPwmNew(c, n) ==
    \E env \in Envs :
        Return("pwm_new", c, n, -1, env, PwmNew(World, c, n, env), NoSteps)

CallCount(c) ==
    \E env \in Envs :
        Return("count", c, -1, -1, env, ChipCount(World, c, env), NoSteps)

CallExport(c, n) ==
    \E env \in Envs :
        Return("export", c, n, -1, env, ChipExport(World, c, n, env), NoSteps)

CallUnexport(c, n) ==
    \E env \in Envs :
        Return("unexport", c, n, -1, env, ChipUnexport(World, c, n, env), NoSteps)

\* A Pwm exists only for a chip that answered Pwm::new.
CallWithExported(c, n) ==
    /\ c \in Present
    /\ \E e1 \in Envs, f \in Closures, e2 \in Envs :
        LET r == WithExportedRun(World, c, n, e1, f, e2)
        IN  Return("with_exported", c, n, -1, e2, r, r.steps)

CallSetPeriodNs(c, n, v) ==
    /\ c \in Present
    /\ \E env \in AttrEnvs :
        Return("set_period_ns", c, n, v, env, SetPeriodNs(World, c, n, v, env), NoSteps)

CallSetDutyCycleNs(c, n, v) ==
    /\ c \in Present
    /\ \E env \in AttrEnvs :
        Return("set_duty_cycle_ns", c, n, v, env,
               SetDutyCycleNs(World, c, n, v, env), NoSteps)

CallGetDutyCycleNs(c, n) ==
    /\ c \in Present
    /\ \E env \in AttrEnvs :
        Return("get_duty_cycle_ns", c, n, -1, env,
               GetDutyCycleNs(World, c, n, env), NoSteps)

CallGetCapture(c, n) ==
    /\ c \in Present
    /\ \E env \in AttrEnvs :
        Return("get_capture", c, n, -1, env,
               GetCapture(World, c, n, capture, env), NoSteps)

(***************************************************************************)
(* Spec: the blocking calls that create values, count, export and unexport *)
(***************************************************************************)
Next ==
    \/ \E c \in Chips : CallChipNew(c)
    \/ \E c \in Chips, n \in Channels : CallPwmNew(c, n)
    \/ \E c \in Chips : CallCount(c)
    \/ \E c \in Chips, n \in Channels : CallExport(c, n)
    \/ \E c \in Chips, n \in Channels : CallUnexport(c, n)
    \/ \E c \in Chips, n \in Channels : CallWithExported(c, n)

Spec == Init /\ [][Next]_vars

(***************************************************************************)
(* SpecPairs: export and unexport, each call keeping the call before it    *)
(***************************************************************************)
InitPairs ==
    /\ InitKernel
    /\ InitCapture
    /\ last = NoCall
    /\ track = TRUE
    /\ task = IdleTask

NextPairs ==
    \/ \E c \in Chips, n \in Channels : CallExport(c, n)
    \/ \E c \in Chips, n \in Channels : CallUnexport(c, n)

SpecPairs == InitPairs /\ [][NextPairs]_vars

(***************************************************************************)
(* SpecAttr: the period and duty cycle of a channel, from a state in which *)
(* at most one channel of chip 0 has been exported                         *)
(***************************************************************************)
InitAttr ==
    /\ \E x \in {{}} \cup {{n} : n \in Lines} : exported = [c \in Present |-> x]
    /\ attr = [c \in Present |-> [n \in Lines |-> DefaultAttr]]
    /\ InitCapture
    /\ last = NoCall
    /\ track = TRUE
    /\ task = IdleTask

NextAttr ==
    \/ \E c \in Chips, n \in Lines, v \in NsValues : CallSetPeriodNs(c, n, v)
    \/ \E c \in Chips, n \in Lines, v \in NsValues : CallSetDutyCycleNs(c, n, v)
    \/ \E c \in Chips, n \in Lines : CallGetDutyCycleNs(c, n)

SpecAttr == InitAttr /\ [][NextAttr]_vars

(***************************************************************************)
(* SpecParse: get_capture over the texts a capture file can hold           *)
(***************************************************************************)
TextChars == {"1", "5", " ", "\n", "x"}

Texts == UNION {[1..k -> TextChars] : k \in 0..MaxLen}

\* The capture file of the scenario: "1000 500", bare and as the kernel ends it
ScenarioTexts ==
    {<<"1", "0", "0", "0", " ", "5", "0", "0">>,
     <<"1", "0", "0", "0", " ", "5", "0", "0", "\n">>}

InitParse ==
    /\ exported = [c \in Present |-> {0}]
    /\ attr = [c \in Present |-> [n \in Lines |-> DefaultAttr]]
    /\ capture \in Texts \cup ScenarioTexts
    /\ last = NoCall
    /\ track = FALSE
    /\ task = IdleTask

NextParse == \E c \in Chips, n \in Lines : CallGetCapture(c, n)

SpecParse == InitParse /\ [][NextParse]_vars

(***************************************************************************)
(* PwmAsync::with_exported (src/src/async_pwm.rs), one step per await      *)
(*                                                                         *)
(* pc: idle -> awaiting (export returned Ok, closure.await pending)        *)
(*          -> resolved (the future produced y) -> unexporting (y() has    *)
(*          returned) -> done (the match has produced the result) -> idle  *)
(* log: the steps of the call in the order they ran                        *)
(***************************************************************************)
\* self.export().await?
AsyncBegin(c, n) ==
    /\ task.pc = "idle"
    /\ c \in Present
    /\ \E env \in Envs :
        LET x == ChipExport(World, c, n, env)
        IN  /\ exported' = x.w.exported
            /\ attr' = x.w.attr
            /\ task' = [task EXCEPT !.pc = IF x.res.ok THEN "awaiting" ELSE "done",
                                    !.chip = c, !.n = n,
                                    !.steps.exp = x.res,
                                    !.res = IF x.res.ok THEN NotRun ELSE x.res,
                                    !.log = <<"export">>]
    /\ UNCHANGED <<capture, last, track>>

\* let y = closure.await: the future resolves to the closure y
AsyncResolve ==
    /\ task.pc = "awaiting"
    /\ \E f \in Closures :
        task' = [task EXCEPT !.pc = "resolved", !.f = f,
                             !.log = Append(@, "resolved")]
    /\ UNCHANGED <<exported, attr, capture, last, track>>

\* y()? : the closure's error returned at once, before any unexport
AsyncCallYEarlyReturn ==
    /\ task.pc = "resolved"
    /\ LET b == RunBody(World, task.chip, task.n, task.f)
       IN  /\ exported' = b.w.exported
           /\ attr' = b.w.attr
           /\ task' = [task EXCEPT !.pc = IF b.res.ok THEN "unexporting" ELSE "done",
                                   !.steps.body = b.res,
                                   !.res = IF b.res.ok THEN NotRun ELSE b.res,
                                   !.log = Append(@, "called")]
    /\ UNCHANGED <<capture, last, track>>

\* y(): the scrutinee of the match
AsyncCallY ==
    /\ task.pc = "resolved"
    /\ LET b == RunBody(World, task.chip, task.n, task.f)
       IN  /\ exported' = b.w.exported
           /\ attr' = b.w.attr
           /\ task' = [task EXCEPT !.pc = "unexporting", !.steps.body = b.res,
                                   !.log = Append(@, "called")]
    /\ UNCHANGED <<capture, last, track>>

\* self.unexport().await in either arm, and the result of the match
AsyncUnexport ==
    /\ task.pc = "unexporting"
    /\ \E env \in Envs :
        LET u == ChipUnexport(World, task.chip, task.n, env)
        IN  /\ exported' = u.w.exported
            /\ attr' = u.w.attr
            /\ task' = [task EXCEPT !.pc = "done", !.steps.unexp = u.res,
                                    !.res = Compose(task.steps.body, u.res),
                                    !.log = Append(@, "unexport")]
    /\ UNCHANGED <<capture, last, track>>

\* The future completes and its result goes to the caller.
AsyncReturn ==
    /\ task.pc = "done"
    /\ task' = IdleTask
    /\ UNCHANGED <<exported, attr, capture, last, track>>

\* While the call is in flight another holder of the chip exports or
\* unexports a channel.
Elsewhere(c, n) ==
    /\ task.pc \in {"awaiting", "resolved", "unexporting"}
    /\ \E r \in {ChipExport(World, c, n, Calm), ChipUnexport(World, c, n, Calm)} :
        /\ r.w.exported /= exported
        /\ exported' = r.w.exported
        /\ attr' = r.w.attr
    /\ UNCHANGED <<capture, last, track, task>>

NextAsync ==
    \/ \E c \in Chips, n \in Channels : AsyncBegin(c, n)
    \/ AsyncResolve
    \/ AsyncCallY
    \/ AsyncUnexport
    \/ AsyncReturn
    \/ \E c \in Present, n \in Lines : Elsewhere(c, n)

\* The executor polls the future to completion and the caller's work ends:
\* each step of a call in flight is taken once it can be.
SpecAsync ==
    /\ Init
    /\ [][NextAsync]_vars
    /\ WF_vars(AsyncResolve)
    /\ WF_vars(AsyncCallY)
    /\ WF_vars(AsyncUnexport)
    /\ WF_vars(AsyncReturn)

(***************************************************************************)
(* Properties                                                              *)
(***************************************************************************)
\* The accesses of the last call that open or write a control file.
ControlAccesses(l) ==
    {i \in 1..Len(l.io) : l.io[i].kind \in {"create", "write"} /\ l.io[i].pin = -1}

WithExportedRan == last.op = "with_exported" /\ last.steps.exp.ok

\* C1: whenever with_exported returns after its export step succeeded, the
\* channel is not exported, whatever the closure and the unexport step did.
C1_NeverLeftClaimed ==
    WithExportedRan => last.n \notin exported[last.chip]

\* C3: when the closure returned an error e and unexport returned Ok, the
\* channel is not exported as with_exported returns, and it returns e itself.
C3_BodyErrorAfterRelease ==
    (WithExportedRan /\ ~last.steps.body.ok /\ last.steps.unexp.ok)
        => /\ last.n \notin exported[last.chip]
           /\ last.res = last.steps.body

\* part occurs in msg as a run of consecutive elements
Mentions(msg, part) ==
    \E i \in 0..(Len(msg) - Len(part)) : SubSeq(msg, i + 1, i + Len(part)) = part

IsCompound(r) ==
    /\ ~r.ok
    /\ r.err.kind = "Unexpected"
    /\ r.err.msg /= <<>>
    /\ r.err.msg[1] = "Failed unexporting due to:"

BothFailed == WithExportedRan /\ ~last.steps.body.ok /\ ~last.steps.unexp.ok

\* C4: when the closure and unexport both fail, with_exported returns an
\* Unexpected error whose text holds the text of both errors; in every other
\* case it returns the closure's error or unexport's result as it is.
C4_CompoundOnDoubleFailure ==
    WithExportedRan =>
        /\ BothFailed =>
            /\ IsCompound(last.res)
            /\ Mentions(last.res.err.msg, Display(last.steps.unexp.err))
            /\ Mentions(last.res.err.msg, Display(last.steps.body.err))
        /\ ~BothFailed =>
            /\ ~IsCompound(last.res)
            /\ last.res = IF last.steps.body.ok THEN last.steps.unexp
                          ELSE last.steps.body

C4_Witness ==
    /\ BothFailed
    /\ last.steps.body.err = Unexpected(<<"x">>)
    /\ last.steps.unexp.err = IoError("PermissionDenied")

\* C5: an export that follows a successful export of the same channel writes
\* nothing to the export file, returns Ok and leaves the exported channels as
\* they were (neither call meeting a refusal of the file system's own).
C5_SecondExportIsNoOp ==
    (/\ last.op = "export"
     /\ last.after.op = "export"
     /\ last.after.chip = last.chip
     /\ last.after.n = last.n
     /\ last.after.ok
     /\ last.after.calm
     /\ last.env = Calm)
        => /\ ControlAccesses(last) = {}
           /\ last.res = Ok(<<>>)
           /\ exported = last.pre

\* The channel's directory did not exist, or could not be probed, as the
\* last call began.
NotProbed ==
    ~(last.chip \in Present /\ last.n \in last.pre[last.chip] /\ last.env.probe)

\* C6: unexport of a channel whose directory does not exist or cannot be
\* probed opens and writes no control file, changes no exported channel and
\* returns Ok.
C6_UnexportIsNoOp ==
    (last.op = "unexport" /\ NotProbed)
        => /\ ControlAccesses(last) = {}
           /\ last.res = Ok(<<>>)
           /\ exported = last.pre

C6_Witness ==
    /\ last.op = "unexport"
    /\ last.chip \in Present
    /\ last.n \in Lines
    /\ last.n \notin last.pre[last.chip]
    /\ last.pre[last.chip] /= {}

\* C7: count returns Npwm when the npwm file holds the decimal text of Npwm
\* and a newline, and the file opens.
C7_CountOfKernelText ==
    (last.op = "count" /\ last.chip \in Present /\ last.env.open)
        => last.res = Ok(<<Npwm>>)

\* C8: creating a PwmChip or a Pwm for a chip that has no directory fails
\* with the io error NotFound, yields no value, probes the chip's directory
\* and touches nothing else.
C8_AbsentChipFails ==
    (last.op \in {"chip_new", "pwm_new"} /\ last.chip \notin Present)
        => /\ last.res = Err(IoError("NotFound"))
           /\ last.io = <<Ev("stat", last.chip, -1, "", FALSE)>>
           /\ exported = last.pre

C8_Witness ==
    /\ last.op = "pwm_new"
    /\ last.chip \notin Present
    /\ exported[0] /= {}

SetThenGet ==
    /\ last.op = "get_duty_cycle_ns"
    /\ last.after.op = "set_duty_cycle_ns"
    /\ last.after.chip = last.chip
    /\ last.after.n = last.n

IsNumber(t) == t /= <<>> /\ \A i \in 1..Len(t) : IsDigit(t[i])

\* The numbers among the whitespace-separated tokens of a text, in order
Numbers(s) == SelectSeq(SplitWhitespace(s), IsNumber)

CaptureRead ==
    /\ last.op = "get_capture"
    /\ last.n \in exported[last.chip]
    /\ last.env.open

\* C10 as stated: get_capture returns (p, d) when the file holds exactly two
\* whitespace-separated tokens, the numbers p and d, and an Unexpected error
\* for every other content.
C10_ExactlyTwoTokens ==
    CaptureRead =>
        IF Len(SplitWhitespace(capture)) = 2 /\ Len(Numbers(capture)) = 2
        THEN last.res = Ok(<<DigitsVal(Numbers(capture)[1]),
                             DigitsVal(Numbers(capture)[2])>>)
        ELSE ~last.res.ok /\ last.res.err.kind = "Unexpected"

\* C10 amended: get_capture returns (p, d) when exactly two of the file's
\* whitespace-separated tokens are numbers, p before d, whatever other
\* tokens the file holds, and an Unexpected error when the count of number
\* tokens is not two.
C10_TwoNumberTokens ==
    CaptureRead =>
        IF Len(Numbers(capture)) = 2
        THEN last.res = Ok(<<DigitsVal(Numbers(capture)[1]),
                             DigitsVal(Numbers(capture)[2])>>)
        ELSE ~last.res.ok /\ last.res.err.kind = "Unexpected"

C10_Witness ==
    /\ CaptureRead
    /\ Len(SplitWhitespace(capture)) = 3
    /\ last.res = Ok(<<1, 5>>)

\* The order of the steps of the call in flight.
AsyncOrder ==
    /\ task.pc \in {"awaiting", "resolved", "unexporting"} =>
            task.steps.exp.ok /\ task.log[1] = "export"
    /\ task.steps.unexp /= NotRun =>
            /\ task.steps.body /= NotRun
            /\ task.log = <<"export", "resolved", "called", "unexport">>
    /\ (task.pc = "done" /\ task.steps.exp.ok) => task.steps.unexp /= NotRun

ExportWriteRefused ==
    \E i \in 1..Len(last.io) :
        /\ last.io[i].kind = "write"
        /\ last.io[i].name = "export"
        /\ ~last.io[i].ok

\* C11: when export returns Ok the channel is exported; when the driver
\* refuses the write to the export file, export returns an io error; and
\* with_exported does not run its closure after a refused export write.
C11_ExportOkMeansExported ==
    /\ (last.op = "export" /\ last.res.ok) => last.n \in exported[last.chip]
    /\ (last.op = "export" /\ ExportWriteRefused)
            => ~last.res.ok /\ last.res.err.kind = "Io"
    /\ (last.op = "with_exported" /\ ExportWriteRefused)
            => last.steps.body = NotRun

====
